---- MODULE Spec2Model ----
(***************************************************************************)
(* Model of src/api_download.py: API_download, the dispatch entry point,   *)
(* and its per-action handlers (_handle_*_action).  One invocation is a    *)
(* state machine whose steps are the statements between two collaborator   *)
(* calls; every collaborator call (Settings, Database, Parameter, link     *)
(* extractor, recorder session, fetch, close_client) either returns one of *)
(* the values the handler distinguishes or raises an Exception.            *)
(***************************************************************************)
EXTENDS Integers, Sequences, FiniteSets, TLC

\* ------------------------------------------------------------------ bounds
MaxUrls == 2      \* longest urls list supplied by the caller
MaxIds == 2       \* most identifiers one extraction returns
MaxData == 2      \* longest list a fetch call returns
MaxCsvRows == 3   \* most rows of a csv file
MaxCells == 2     \* most cells of a csv row

\* ------------------------------------------------------- python values
\* A Python value: t is its type, v its characters or elements, n its number.
Val(t, v, n) == [t |-> t, v |-> v, n |-> n]
Absent == Val("absent", <<>>, 0)        \* key not in kwargs
None == Val("none", <<>>, 0)
PyStr(s) == Val("str", s, 0)
PyInt(n) == Val("int", <<>>, n)
PyBool(b) == Val("bool", <<>>, IF b THEN 1 ELSE 0)
PyList(l) == Val("list", l, 0)
PyTuple(l) == Val("tuple", l, 0)
PyObject == Val("object", <<>>, 0)      \* a truthy value that is not a list
Raised == Val("raise", <<>>, 0)         \* the call raised an Exception

\* The whitespace characters that have no escape in a string: each is
\* written as the character itself between the quotes.
VT == ""            \* U+000B vertical tab
FS == ""            \* U+001C file separator
GS == ""            \* U+001D group separator
RS == ""            \* U+001E record separator
US == ""            \* U+001F unit separator
NEL == ""           \* U+0085 next line
NBSP == " "          \* U+00A0 no-break space
OghamSpace == " "    \* U+1680 ogham space mark

\* The characters str.strip() removes (those with str.isspace()).  Python
\* also removes U+2000..U+200A, U+2028, U+2029, U+202F, U+205F and U+3000,
\* which no string of a module can hold.
Whitespace == {" ", "\t", "\n", "\r", "\f", VT, FS, GS, RS, US, NEL, NBSP, OghamSpace}

RECURSIVE lstrip(_)
lstrip(s) == IF s = <<>> THEN s
             ELSE IF Head(s) \in Whitespace THEN lstrip(Tail(s)) ELSE s

RECURSIVE rstrip(_)
rstrip(s) == IF s = <<>> THEN s
             ELSE IF s[Len(s)] \in Whitespace THEN rstrip(SubSeq(s, 1, Len(s) - 1)) ELSE s

\* Variant of strip that trims the left side only (str.lstrip())
strip_LeftOnly(s) == lstrip(s)

\* str.strip()
strip(s) == rstrip(lstrip(s))

\* bool(x) for the value shapes the caller can pass
Truthy(x) == CASE x.t \in {"absent", "none"} -> FALSE
               [] x.t \in {"str", "list", "tuple"} -> Len(x.v) > 0
               [] x.t \in {"int", "bool"} -> x.n # 0
               [] OTHER -> TRUE

\* kwargs.get(key, default) and kwargs.get(key)
Get(x, default) == IF x.t = "absent" THEN default ELSE x
GetOrNone(x) == Get(x, None)

\* Variant of AnyNonBlankStr that forgets the strip: any(url for url in urls ...)
AnyNonBlankStr_NoStrip(l) == \E i \in 1..Len(l) : l[i].t = "str" /\ l[i].v # <<>>

\* any(url.strip() for url in urls if isinstance(url, str))
AnyNonBlankStr(l) == \E i \in 1..Len(l) : l[i].t = "str" /\ strip(l[i].v) # <<>>

\* ------------------------------------------------------- program constants
valid_actions == <<"detail", "account", "live", "comment", "mix", "user",
                   "search", "hot", "collection", "collection_music",
                   "collects", "detail_unofficial">>

Range(s) == {s[i] : i \in 1..Len(s)}

urls_required_actions == {"detail", "detail_unofficial", "account", "live", "comment", "mix", "user"}
urls_list_actions == urls_required_actions \cup {"collects"}

\* ------------------------------------------------------- input universe
UrlStrings == {<<>>, <<"\t", VT>>, <<"a">>, <<" ", "b", "\n">>}
UrlElements == {PyStr(s) : s \in UrlStrings} \cup {PyInt(7)}

SeqsUpTo(S, n) == UNION {[1..k -> S] : k \in 0..n}

UrlsValues == {Absent, None, PyInt(0), PyInt(7), PyTuple(<<PyStr(<<"a">>)>>)}
              \cup {PyStr(s) : s \in UrlStrings}
              \cup {PyList(l) : l \in SeqsUpTo(UrlElements, MaxUrls)}

KeywordValues == {Absent, None, PyStr(<<>>), PyStr(<<"\t", VT>>), PyStr(<<"\t", "k", " ">>)}
SearchTypes == {"general", "user", "video", "live"}
\* max_pages is left out or given
MaxPagesValues == {Absent, PyInt(3)}
ActionNames == Range(valid_actions) \cup {"bogus"}

\* ------------------------------------------------------- result values
Msg(kind, arg, n) == [kind |-> kind, arg |-> arg, n |-> n, names |-> <<>>]
NoMsg == Msg("", "", 0)

\* one entry of result['details']; error = "" when the key is absent,
\* extra holds extracted_ids / mix_ids / <<user_id>> / <<live_count>>
Detail(url, status, error, extra) ==
    [url |-> url, status |-> status, error |-> error, extra |-> extra]

Ids(k) == [i \in 1..k |-> i]

\* what a link extractor call can do: raise, or return 0..MaxIds identifiers
ExtractResults == {Raised} \cup {PyList(Ids(k)) : k \in 0..MaxIds}

\* what a fetch call can do: raise, return None, a list, or another object
FetchResults == {Raised, None, PyObject} \cup {PyList(Ids(k)) : k \in 0..MaxData}

\* len(data) if isinstance(data, list) else 1
CountOf(data) == IF data.t = "list" THEN Len(data.v) ELSE 1

\* what the caller holds before a call: no failure, nothing counted
NoCall == [result |-> [success |-> FALSE, message |-> NoMsg, downloaded_count |-> 0,
                       failed_count |-> 0, details |-> <<>>],
           responses |-> <<>>]

VARIABLES
    action,      \* the action argument
    kwargs,      \* the keyword arguments: urls, tiktok, search_keyword, search_type,
                 \* max_pages
    result,      \* the result dict
    urls,        \* the local urls after line 165-178
    idx,         \* position of the handler's for loop (1-based)
    all_ids,     \* all_ids / all_user_ids / collect_ids / all_live_data
    ids,         \* identifiers of the current item (user_ids, mix_ids, ids)
    live_data,   \* what the get_live_data calls of the current item returned so far
    pc,          \* position in the code
    exc,         \* exception in flight ("" for none)
    ret,         \* a return statement is unwinding the context managers
    outcome,     \* "running", "returned" or "raised": what the caller sees
    dbOpen,      \* the `async with database` context is entered
    sessionOpen, \* number of recorder sessions entered and not exited
    acquired,    \* recorder sessions entered so far
    released,    \* recorder sessions exited so far
    extracted,   \* loop positions whose extraction call was made, in call order
    handed,      \* arguments handed to collaborator calls, in call order
    effects,     \* collaborator calls made so far (names)
    failures,    \* collaborator calls that raised or returned nothing, in order
    responses,   \* what each collaborator call of this call did, in call order
    run,         \* 0 for a caller that makes one call, else which of its two calls this is
    first,       \* the result and the collaborator responses of the caller's first call
    me,          \* which of the caller's invocations is running (1 or 2)
    other,       \* the invocation that is suspended at an await, if there is one
    issued,      \* collaborator calls started, for a caller that watches them start
    refs,        \* the objects the names result, urls and record are bound to (0: none)
    heap,        \* the interpreter: objects created so far, recorder sessions entered
    overlapped,  \* an invocation ran while the other one was suspended at an await
    csv_file,    \* read_csv_first_rows: the rows of the file at csv_path, or NoFile
    rows,        \* read_csv_first_rows: the rows argument
    markdown,    \* read_csv_first_rows: the text returned
    csv_pc       \* read_csv_first_rows: "idle", "call" or "done"

vars == <<action, kwargs, result, urls, idx, all_ids, ids, live_data, pc, exc, ret, outcome,
          dbOpen, sessionOpen, acquired, released, extracted, handed, effects, failures,
          responses, run, first, me, other, issued, refs, heap, overlapped,
          csv_file, rows, markdown, csv_pc>>

\* what the caller and the event loop hold: the arguments of the call, what
\* the caller kept of its first call, and the suspended invocation
callerVars == <<action, kwargs, run, first, me, other, issued, overlapped,
                csv_file, rows, markdown, csv_pc>>

\* what a statement that creates no object and enters no session leaves alone
inputVars == <<callerVars, refs, heap>>

\* no name of the invocation is bound yet
NoRefs == [result |-> 0, urls |-> 0, record |-> 0]

\* the state of one invocation: its arguments, its locals, its objects
Context ==
    [action |-> action, kwargs |-> kwargs, result |-> result, urls |-> urls, idx |-> idx,
     all_ids |-> all_ids, ids |-> ids, live_data |-> live_data, pc |-> pc, exc |-> exc, ret |-> ret,
     outcome |-> outcome, dbOpen |-> dbOpen, sessionOpen |-> sessionOpen,
     acquired |-> acquired, released |-> released, extracted |-> extracted,
     handed |-> handed, effects |-> effects, failures |-> failures,
     responses |-> responses, refs |-> refs]

\* the state of an invocation that was called with (a, kw) and has not run yet
ContextAt(a, kw) ==
    [action |-> a, kwargs |-> kw, result |-> NoCall.result, urls |-> <<>>, idx |-> 1,
     all_ids |-> <<>>, ids |-> <<>>, live_data |-> <<>>, pc |-> "start", exc |-> "", ret |-> FALSE,
     outcome |-> "running", dbOpen |-> FALSE, sessionOpen |-> 0,
     acquired |-> 0, released |-> 0, extracted |-> <<>>,
     handed |-> <<>>, effects |-> {}, failures |-> <<>>,
     responses |-> <<>>, refs |-> NoRefs]

NoKwargs == [urls |-> Absent, tiktok |-> Absent, search_keyword |-> Absent,
             search_type |-> "general", max_pages |-> Absent]

\* there is no second invocation
NoOther == [ContextAt("", NoKwargs) EXCEPT !.pc = "absent"]
loopVars == <<urls, idx, all_ids, ids, live_data>>
sessionVars == <<sessionOpen, acquired, released>>

tiktok_platform == Truthy(Get(kwargs.tiktok, PyBool(FALSE)))

\* line 129: the default of kwargs.get('max_pages', 1)
MaxPagesDefault == 1

\* line 129: max_pages = kwargs.get('max_pages', 1)
max_pages == Get(kwargs.max_pages, PyInt(MaxPagesDefault))

\* Variant of NewResult that is one dict kept between calls instead of a
\* new dict per call
NewResult_KeptBetweenCalls == result

\* lines 147-153: the result dict a call starts with
NewResult == [success |-> FALSE, message |-> NoMsg, downloaded_count |-> 0,
              failed_count |-> 0, details |-> <<>>]

\* The object an expression creates (a dict or list display, a call of a
\* class): a new one, different from every object made before.
NewObject == heap.objects + 1

\* Variant of ResultDict for one module-level result dict: the first call
\* makes it and every later call fills it in again
ResultDict_ModuleLevel == IF heap.objects = 0 THEN NewObject ELSE 1

\* lines 147-153: `result = {...}` binds the name to a new dict at every call
ResultDict == NewObject

\* line 170: `urls = [urls]` binds the name to a new list
UrlsList == NewObject

\* a statement that creates one object
Creates == heap' = [heap EXCEPT !.objects = @ + 1]

\* lines 365, 408, 571, 628, 651, 677, 696: logger_manager(...) makes the
\* session object, `async with ... as record` enters it and binds record
EnterSession ==
    /\ refs' = [refs EXCEPT !.record = NewObject]
    /\ heap' = [objects |-> heap.objects + 1, opened |-> heap.opened \cup {NewObject}]

\* leaving the `async with` block exits the session bound to record
ExitSession ==
    /\ heap' = [heap EXCEPT !.opened = @ \ {refs.record}]
    /\ UNCHANGED refs

\* no object is created, no session entered or left
NoObject == UNCHANGED <<refs, heap>>

\* the state of API_download at the call, whatever the caller does with the result
InitApi ==
    /\ action \in ActionNames
    /\ kwargs \in [urls : UrlsValues, tiktok : {Absent, PyBool(TRUE)},
                   search_keyword : KeywordValues, search_type : SearchTypes,
                   max_pages : MaxPagesValues]
    /\ action \notin urls_list_actions => kwargs.urls = Absent
    /\ action # "comment" => kwargs.max_pages = Absent
    /\ action # "search" => kwargs.search_keyword = Absent /\ kwargs.search_type = "general"
    /\ result = NoCall.result
    /\ urls = <<>>
    /\ idx = 1
    /\ all_ids = <<>>
    /\ ids = <<>>
    /\ live_data = <<>>
    /\ pc = "start"
    /\ exc = ""
    /\ ret = FALSE
    /\ outcome = "running"
    /\ dbOpen = FALSE
    /\ sessionOpen = 0
    /\ acquired = 0
    /\ released = 0
    /\ extracted = <<>>
    /\ handed = <<>>
    /\ effects = {}
    /\ failures = <<>>
    /\ responses = <<>>
    /\ first = NoCall
    /\ issued = 0
    /\ refs = NoRefs
    /\ heap = [objects |-> 0, opened |-> {}]
    /\ overlapped = FALSE

\* read_csv_first_rows is not called
NoCsvCall ==
    /\ csv_file = <<>>
    /\ rows = 0
    /\ markdown = [kind |-> "", text |-> <<>>]
    /\ csv_pc = "idle"

\* the state at a call of API_download
InitCall == InitApi /\ NoCsvCall

\* a caller that makes one call
Init == InitCall /\ run = 0 /\ me = 1 /\ other = NoOther

\* a collaborator call failed: op is the call, i the loop position (0 outside
\* a loop), how is "raise" or "empty"
Failed(op, i, how) == Append(failures, [op |-> op, i |-> i, how |-> how])

\* a collaborator call answered: v is what it returned, or Raised; kept for
\* a caller that compares two calls
Responds(v) == responses' = IF run = 0 THEN responses ELSE Append(responses, v)

\* a collaborator call was made: to is the call, v the argument it was handed
Handed(to, v) == [to |-> to, v |-> v]

\* `return result` outside every context manager
ReturnNow == pc' = "done" /\ outcome' = "returned"

\* Variant of ValidateAction without the membership test of line 138
ValidateAction_NoCheck ==
    /\ pc = "start"
    /\ result' = NewResult
    /\ refs' = [refs EXCEPT !.result = ResultDict]
    /\ Creates
    /\ pc' = "validate"
    /\ UNCHANGED <<callerVars, responses, loopVars, exc, ret, outcome, dbOpen, sessionVars, extracted, handed,
                   effects, failures>>

\* lines 131-153: the action name check and the fresh result dict
ValidateAction ==
    /\ pc = "start"
    /\ IF action \notin Range(valid_actions)
       THEN /\ result' = [NewResult EXCEPT !.message =
                             [kind |-> "invalid_action", arg |-> action, n |-> 0,
                              names |-> valid_actions]]
            /\ ReturnNow
            /\ Creates
            /\ UNCHANGED refs
       ELSE /\ result' = NewResult
            /\ refs' = [refs EXCEPT !.result = ResultDict]
            /\ Creates
            /\ pc' = "validate"
            /\ UNCHANGED outcome
    /\ UNCHANGED <<callerVars, responses, loopVars, exc, ret, dbOpen, sessionVars, extracted, handed, effects, failures>>

\* lines 155-178: required-parameter checks and urls normalisation
ValidateParams ==
    /\ pc = "validate"
    /\ LET u == Get(kwargs.urls, PyStr(<<>>))
           kw == Get(kwargs.search_keyword, PyStr(<<>>))
           Fail(m) == /\ result' = [result EXCEPT !.message = m]
                      /\ ReturnNow
                      /\ NoObject
                      /\ UNCHANGED <<urls, exc>>
       IN
       IF action \in urls_required_actions /\ ~Truthy(GetOrNone(kwargs.urls))
       THEN Fail(Msg("urls_required", action, 0))
       ELSE IF action = "search" /\ kw.t # "str"
       THEN \* search_keyword.strip() on a non-string: AttributeError inside the try
            /\ exc' = "AttributeError"
            /\ pc' = "except"
            /\ NoObject
            /\ UNCHANGED <<result, urls, outcome>>
       ELSE IF action = "search" /\ strip(kw.v) = <<>>
       THEN Fail(Msg("search_keyword_required", "", 0))
       ELSE IF action \in urls_list_actions
       THEN IF u.t = "str"
            THEN IF strip(u.v) = <<>>
                 THEN Fail(Msg("no_valid_links", "", 0))
                 ELSE /\ urls' = <<u>>
                      /\ refs' = [refs EXCEPT !.urls = UrlsList]
                      /\ Creates
                      /\ pc' = "init"
                      /\ UNCHANGED <<result, exc, outcome>>
            ELSE IF u.t = "list"
            THEN IF u.v = <<>> \/ ~AnyNonBlankStr(u.v)
                 THEN Fail(Msg("no_valid_links", "", 0))
                 ELSE /\ urls' = u.v
                      /\ NoObject
                      /\ pc' = "init"
                      /\ UNCHANGED <<result, exc, outcome>>
            ELSE Fail(Msg("urls_format_error", "", 0))
       ELSE /\ pc' = "init"
            /\ NoObject
            /\ UNCHANGED <<result, urls, exc, outcome>>
    /\ UNCHANGED <<callerVars, responses, idx, all_ids, ids, live_data, ret, dbOpen, sessionVars, extracted, handed, effects, failures>>

\* ------------------------------------------------------- API_download body
\* lines 180-190: DummyConsole, Settings, Cookie and Database are constructed
InitObjects ==
    /\ pc = "init"
    /\ effects' = effects \cup {"Database"}
    /\ \E ok \in BOOLEAN : Responds(PyBool(ok)) /\
         IF ok THEN pc' = "db_enter" /\ UNCHANGED <<exc, failures>>
               ELSE pc' = "except" /\ exc' = "InitError" /\ failures' = Failed("init", 0, "raise")
    /\ UNCHANGED <<inputVars, result, loopVars, ret, outcome, dbOpen, sessionVars, extracted, handed>>

\* line 192: `async with database:` is entered
DatabaseEnter ==
    /\ pc = "db_enter"
    /\ effects' = effects \cup {"db_enter"}
    /\ \E ok \in BOOLEAN : Responds(PyBool(ok)) /\
         IF ok THEN pc' = "read_config" /\ dbOpen' = TRUE /\ UNCHANGED <<exc, failures>>
               ELSE /\ pc' = "except" /\ exc' = "DbEnterError" /\ UNCHANGED dbOpen
                    /\ failures' = Failed("db_enter", 0, "raise")
    /\ UNCHANGED <<inputVars, result, loopVars, ret, outcome, sessionVars, extracted, handed>>

\* line 194: config_data = await database.read_config_data()
ReadConfig ==
    /\ pc = "read_config"
    /\ effects' = effects \cup {"read_config"}
    /\ \E ok \in BOOLEAN : Responds(PyBool(ok)) /\
         IF ok THEN pc' = "read_option" /\ UNCHANGED <<exc, failures>>
               ELSE /\ pc' = "db_exit" /\ exc' = "ConfigError"
                    /\ failures' = Failed("read_config", 0, "raise")
    /\ UNCHANGED <<inputVars, result, loopVars, ret, outcome, dbOpen, sessionVars, extracted, handed>>

\* lines 195-204: option_data = await database.read_option_data(), then the
\* two dicts and DownloadRecorder are built
ReadOption ==
    /\ pc = "read_option"
    /\ effects' = effects \cup {"read_option"}
    /\ \E ok \in BOOLEAN : Responds(PyBool(ok)) /\
         IF ok THEN pc' = "parameter" /\ UNCHANGED <<exc, failures>>
               ELSE /\ pc' = "db_exit" /\ exc' = "ConfigError"
                    /\ failures' = Failed("read_option", 0, "raise")
    /\ UNCHANGED <<inputVars, result, loopVars, ret, outcome, dbOpen, sessionVars, extracted, handed>>

\* lines 207-256: Parameter(...), set_headers_cookie(), TikTok(...).
\* "client" records that the Parameter object (and its clients) exists.
CreateParameter ==
    /\ pc = "parameter"
    /\ \E out \in {"ok", "raise_in_constructor", "raise_after_constructor"} :
         /\ Responds(PyStr(<<out>>))
         /\ effects' = effects \cup {"Parameter"}
                          \cup (IF out = "raise_in_constructor" THEN {} ELSE {"client"})
         /\ IF out = "ok" THEN pc' = "dispatch" /\ UNCHANGED <<exc, failures>>
                          ELSE /\ pc' = "db_exit" /\ exc' = "ParameterError"
                               /\ failures' = Failed("parameter", 0, "raise")
    /\ handed' = Append(handed, Handed("Parameter", max_pages))
    /\ UNCHANGED <<inputVars, result, loopVars, ret, outcome, dbOpen, sessionVars, extracted>>

\* the feature named in the platform message of an action the TikTok flag excludes
PlatformFeature(a) ==
    CASE a = "comment" -> "comment"
      [] a = "user" -> "user"
      [] a = "search" -> "search"
      [] a = "hot" -> "hot"
      [] a \in {"collection", "collection_music", "collects"} -> "collection"
      [] OTHER -> ""

\* the first statement of the handler an action is dispatched to
HandlerEntry(a) ==
    CASE a \in {"detail", "detail_unofficial"} -> "detail_loop"
      [] a = "account" -> "account_loop"
      [] a = "live" -> "live_loop"
      [] a = "comment" -> "comment_loop"
      [] a = "mix" -> "mix_loop"
      [] a = "user" -> "user_loop"
      [] a = "search" -> "search_enter"
      [] a = "hot" -> "hot_enter"
      [] OTHER -> "collection_enter"

\* lines 258-299: the if/elif chain on action, with the TikTok checks
Dispatch ==
    /\ pc = "dispatch"
    /\ IF PlatformFeature(action) # "" /\ tiktok_platform
       THEN /\ result' = [result EXCEPT !.message =
                             Msg("platform_unsupported", PlatformFeature(action), 0)]
            /\ ret' = TRUE
            /\ pc' = "db_exit"
            /\ UNCHANGED effects
       ELSE /\ pc' = HandlerEntry(action)
            /\ effects' = effects \cup {"handler"}
            /\ UNCHANGED <<result, ret>>
    /\ UNCHANGED <<inputVars, responses, loopVars, exc, outcome, dbOpen, sessionVars, extracted, handed, failures>>

\* Variant of DatabaseExit for a database that is closed by a statement at
\* the end of the block instead of `async with`: an exception or a return
\* leaves it open
DatabaseExit_ClosedAtEndOnly ==
    /\ pc = "db_exit"
    /\ dbOpen' = (exc # "" \/ ret)
    /\ \E ok \in BOOLEAN : Responds(PyBool(ok)) /\
         IF ~ok
         THEN /\ exc' = "DbExitError"
              /\ ret' = FALSE
              /\ pc' = "except"
              /\ failures' = Failed("db_exit", 0, "raise")
              /\ UNCHANGED outcome
         ELSE IF exc # ""
         THEN pc' = "except" /\ UNCHANGED <<exc, ret, outcome, failures>>
         ELSE IF ret
         THEN ReturnNow /\ UNCHANGED <<exc, ret, failures>>
         ELSE pc' = "close_client" /\ UNCHANGED <<exc, ret, outcome, failures>>
    /\ UNCHANGED <<inputVars, result, loopVars, sessionVars, extracted, handed, effects>>

\* line 192, leaving `async with database:` normally, by return or by exception
DatabaseExit ==
    /\ pc = "db_exit"
    /\ dbOpen' = FALSE
    /\ \E ok \in BOOLEAN : Responds(PyBool(ok)) /\
         IF ~ok
         THEN /\ exc' = "DbExitError"
              /\ ret' = FALSE
              /\ pc' = "except"
              /\ failures' = Failed("db_exit", 0, "raise")
              /\ UNCHANGED outcome
         ELSE IF exc # ""
         THEN pc' = "except" /\ UNCHANGED <<exc, ret, outcome, failures>>
         ELSE IF ret
         THEN ReturnNow /\ UNCHANGED <<exc, ret, failures>>
         ELSE pc' = "close_client" /\ UNCHANGED <<exc, ret, outcome, failures>>
    /\ UNCHANGED <<inputVars, result, loopVars, sessionVars, extracted, handed, effects>>

\* lines 301-303: parameter.close_client()
CloseClient ==
    /\ pc = "close_client"
    /\ effects' = effects \cup {"close_client"}
    /\ \E ok \in BOOLEAN : Responds(PyBool(ok)) /\
         IF ok THEN pc' = "return" /\ UNCHANGED <<exc, failures>>
               ELSE /\ pc' = "except" /\ exc' = "CloseClientError"
                    /\ failures' = Failed("close_client", 0, "raise")
    /\ UNCHANGED <<inputVars, result, loopVars, ret, outcome, dbOpen, sessionVars, extracted, handed>>

\* Variant of TopExcept whose except clause does not match the exception,
\* which then reaches the caller
TopExcept_Escapes ==
    /\ pc = "except"
    /\ pc' = "done"
    /\ outcome' = "raised"
    /\ UNCHANGED <<inputVars, responses, result, loopVars, exc, ret, dbOpen, sessionVars, extracted, handed,
                   effects, failures>>

\* lines 305-306: except Exception as e
TopExcept ==
    /\ pc = "except"
    /\ result' = [result EXCEPT !.message = Msg("init_error", exc, 0)]
    /\ exc' = ""
    /\ pc' = "return"
    /\ UNCHANGED <<inputVars, responses, loopVars, ret, outcome, dbOpen, sessionVars, extracted, handed, effects, failures>>

\* line 308: return result
Return ==
    /\ pc = "return"
    /\ ReturnNow
    /\ UNCHANGED <<inputVars, responses, result, loopVars, exc, ret, dbOpen, sessionVars, extracted, handed, effects, failures>>

\* ------------------------------------------------------- shared shapes
AddFailed(res, url, error) ==
    [res EXCEPT !.details = Append(@, Detail(url, "failed", error, <<>>)),
                !.failed_count = @ + 1]

AddSuccess(res, url, extra) ==
    [res EXCEPT !.details = Append(@, Detail(url, "success", "", extra))]

\* the handler's own `except Exception as e: result['message'] = ...`
HandlerExcept(kind, e) ==
    /\ result' = [result EXCEPT !.message = Msg(kind, e, 0)]
    /\ exc' = ""
    /\ ret' = FALSE
    /\ pc' = "db_exit"

\* Variant of SessionEnterCaught that swallows a failed __aenter__ and runs
\* the body of the block without a session
SessionEnterCaught_RunsBody(next, kind) ==
    /\ effects' = effects \cup {"session"}
    /\ \E ok \in BOOLEAN : Responds(PyBool(ok)) /\
         IF ok
         THEN /\ sessionOpen' = sessionOpen + 1
              /\ acquired' = acquired + 1
              /\ EnterSession
              /\ UNCHANGED <<released, failures>>
         ELSE /\ failures' = Failed("session_enter", 0, "raise")
              /\ UNCHANGED sessionVars
              /\ NoObject
    /\ pc' = next
    /\ UNCHANGED <<callerVars, result, loopVars, exc, ret, outcome, dbOpen, extracted, handed>>

\* record.run(...) and `async with logger_manager(...) as record:` entered,
\* inside the handler's try block
SessionEnterCaught(next, kind) ==
    /\ effects' = effects \cup {"session"}
    /\ \E ok \in BOOLEAN : Responds(PyBool(ok)) /\
         IF ok
         THEN /\ sessionOpen' = sessionOpen + 1
              /\ acquired' = acquired + 1
              /\ EnterSession
              /\ pc' = next
              /\ UNCHANGED <<result, exc, ret, released, failures>>
         ELSE /\ HandlerExcept(kind, "SessionEnterError")
              /\ failures' = Failed("session_enter", 0, "raise")
              /\ UNCHANGED sessionVars
              /\ NoObject
    /\ UNCHANGED <<callerVars, loopVars, outcome, dbOpen, extracted, handed>>

\* Variant of SessionExitCaught that leaves the session open when the body
\* of the `async with` block raised
SessionExitCaught_LeakOnError(next, kind, advance) ==
    /\ IF exc # ""
       THEN UNCHANGED <<sessionOpen, released>> /\ NoObject
       ELSE sessionOpen' = sessionOpen - 1 /\ released' = released + 1 /\ ExitSession
    /\ \E ok \in BOOLEAN : Responds(PyBool(ok)) /\
         IF ~ok
         THEN /\ HandlerExcept(kind, "SessionExitError")
              /\ failures' = Failed("session_exit", 0, "raise")
              /\ UNCHANGED idx
         ELSE IF exc # ""
         THEN HandlerExcept(kind, exc) /\ UNCHANGED <<idx, failures>>
         ELSE IF ret
         THEN /\ ret' = FALSE
              /\ pc' = "db_exit"
              /\ UNCHANGED <<result, exc, idx, failures>>
         ELSE /\ pc' = next
              /\ idx' = idx + advance
              /\ UNCHANGED <<result, exc, ret, failures>>
    /\ UNCHANGED <<callerVars, urls, all_ids, ids, live_data, outcome, dbOpen, acquired, extracted, handed, effects>>

\* the `async with` block is left, inside the handler's try block: normally
\* (the loop moves on by `advance`), by a return, or with an exception
SessionExitCaught(next, kind, advance) ==
    /\ sessionOpen' = sessionOpen - 1
    /\ released' = released + 1
    /\ ExitSession
    /\ \E ok \in BOOLEAN : Responds(PyBool(ok)) /\
         IF ~ok
         THEN /\ HandlerExcept(kind, "SessionExitError")
              /\ failures' = Failed("session_exit", 0, "raise")
              /\ UNCHANGED idx
         ELSE IF exc # ""
         THEN HandlerExcept(kind, exc) /\ UNCHANGED <<idx, failures>>
         ELSE IF ret
         THEN /\ ret' = FALSE
              /\ pc' = "db_exit"
              /\ UNCHANGED <<result, exc, idx, failures>>
         ELSE /\ pc' = next
              /\ idx' = idx + advance
              /\ UNCHANGED <<result, exc, ret, failures>>
    /\ UNCHANGED <<callerVars, urls, all_ids, ids, live_data, outcome, dbOpen, acquired, extracted, handed, effects>>

\* ------------------------------------------------------- _handle_detail_action
\* Variant of DetailExtract that calls the extractor a second time for a url
\* whose extraction raised
DetailExtract_RetriesOnce ==
    /\ pc = "detail_loop"
    /\ idx <= Len(urls)
    /\ LET el == urls[idx]
           url == strip(el.v)
       IN
       IF el.t # "str"
       THEN \* url.strip() is outside the try: AttributeError leaves the handler
            /\ exc' = "AttributeError"
            /\ pc' = "db_exit"
            /\ UNCHANGED <<result, idx, all_ids, extracted, handed, effects, failures, responses>>
       ELSE IF url = <<>>
       THEN /\ idx' = idx + 1
            /\ UNCHANGED <<result, all_ids, pc, exc, extracted, handed, effects, failures, responses>>
       ELSE \E r \in ExtractResults :
            /\ extracted' = Append(extracted, idx)
            /\ handed' = Append(handed, Handed("extract", PyStr(strip(el.v))))
            /\ Responds(r)
            /\ effects' = effects \cup {"extract"}
            /\ idx' = (IF r = Raised /\ idx \notin Range(extracted) THEN idx ELSE idx + 1)
            /\ IF r = Raised
               THEN /\ result' = AddFailed(result, url, "ExtractError")
                    /\ failures' = Failed("extract", idx, "raise")
                    /\ UNCHANGED all_ids
               ELSE IF r.v # <<>>
               THEN /\ all_ids' = all_ids \o r.v
                    /\ result' = AddSuccess(result, url, r.v)
                    /\ UNCHANGED failures
               ELSE /\ result' = AddFailed(result, url, "no_ids")
                    /\ failures' = Failed("extract", idx, "empty")
                    /\ UNCHANGED all_ids
            /\ UNCHANGED <<pc, exc>>
    /\ UNCHANGED <<inputVars, urls, ids, live_data, ret, outcome, dbOpen, sessionVars>>

\* lines 328-357: one pass of `for url in urls`
DetailExtract ==
    /\ pc = "detail_loop"
    /\ idx <= Len(urls)
    /\ LET el == urls[idx]
           url == strip(el.v)
       IN
       IF el.t # "str"
       THEN \* url.strip() is outside the try: AttributeError leaves the handler
            /\ exc' = "AttributeError"
            /\ pc' = "db_exit"
            /\ UNCHANGED <<result, idx, all_ids, extracted, handed, effects, failures, responses>>
       ELSE IF url = <<>>
       THEN /\ idx' = idx + 1
            /\ UNCHANGED <<result, all_ids, pc, exc, extracted, handed, effects, failures, responses>>
       ELSE \E r \in ExtractResults :
            /\ extracted' = Append(extracted, idx)
            /\ handed' = Append(handed, Handed("extract", PyStr(strip(el.v))))
            /\ Responds(r)
            /\ effects' = effects \cup {"extract"}
            /\ idx' = idx + 1
            /\ IF r = Raised
               THEN /\ result' = AddFailed(result, url, "ExtractError")
                    /\ failures' = Failed("extract", idx, "raise")
                    /\ UNCHANGED all_ids
               ELSE IF r.v # <<>>
               THEN /\ all_ids' = all_ids \o r.v
                    /\ result' = AddSuccess(result, url, r.v)
                    /\ UNCHANGED failures
               ELSE /\ result' = AddFailed(result, url, "no_ids")
                    /\ failures' = Failed("extract", idx, "empty")
                    /\ UNCHANGED all_ids
            /\ UNCHANGED <<pc, exc>>
    /\ UNCHANGED <<inputVars, urls, ids, live_data, ret, outcome, dbOpen, sessionVars>>

\* Variant of DetailAfterLoop without the `if not all_ids` test of line 359
DetailAfterLoop_NoEmptyCheck ==
    /\ pc = "detail_loop"
    /\ idx > Len(urls)
    /\ pc' = "detail_enter"
    /\ UNCHANGED result
    /\ UNCHANGED <<inputVars, responses, loopVars, exc, ret, outcome, dbOpen, sessionVars, extracted, handed, effects, failures>>

\* lines 359-361: after the loop
DetailAfterLoop ==
    /\ pc = "detail_loop"
    /\ idx > Len(urls)
    /\ IF all_ids = <<>>
       THEN /\ result' = [result EXCEPT !.message = Msg("no_ids_extracted", "", 0)]
            /\ pc' = "db_exit"
       ELSE /\ pc' = "detail_enter"
            /\ UNCHANGED result
    /\ UNCHANGED <<inputVars, responses, loopVars, exc, ret, outcome, dbOpen, sessionVars, extracted, handed, effects, failures>>

\* lines 364-365: record.run(...) and the session is entered, outside any try
DetailSessionEnter ==
    /\ pc = "detail_enter"
    /\ effects' = effects \cup {"session"}
    /\ \E ok \in BOOLEAN : Responds(PyBool(ok)) /\
         IF ok
         THEN /\ sessionOpen' = sessionOpen + 1
              /\ acquired' = acquired + 1
              /\ EnterSession
              /\ pc' = "detail_fetch"
              /\ UNCHANGED <<exc, released, failures>>
         ELSE /\ exc' = "SessionEnterError"
              /\ pc' = "db_exit"
              /\ failures' = Failed("session_enter", 0, "raise")
              /\ UNCHANGED sessionVars
              /\ NoObject
    /\ UNCHANGED <<callerVars, result, loopVars, ret, outcome, dbOpen, extracted, handed>>

\* lines 366-378: the try block inside the session
DetailFetch ==
    /\ pc = "detail_fetch"
    /\ effects' = effects \cup {"fetch"}
    /\ handed' = Append(handed, Handed("fetch", PyList(all_ids)))
    /\ \E ok \in BOOLEAN : Responds(PyBool(ok)) /\
         IF ok
         THEN /\ result' = [result EXCEPT !.success = TRUE,
                                          !.downloaded_count = Len(all_ids),
                                          !.message = Msg("detail_done", "", Len(all_ids))]
              /\ UNCHANGED failures
         ELSE /\ result' = [result EXCEPT !.message = Msg("download_error", "FetchError", 0),
                                          !.failed_count = @ + Len(all_ids)]
              /\ failures' = Failed("fetch", 0, "raise")
    /\ pc' = "detail_exit"
    /\ UNCHANGED <<inputVars, loopVars, exc, ret, outcome, dbOpen, sessionVars, extracted>>

\* line 365: the session is left; an exception of __aexit__ leaves the handler
DetailSessionExit ==
    /\ pc = "detail_exit"
    /\ sessionOpen' = sessionOpen - 1
    /\ released' = released + 1
    /\ ExitSession
    /\ \E ok \in BOOLEAN : Responds(PyBool(ok)) /\
         IF ok THEN exc' = "" /\ UNCHANGED failures
               ELSE exc' = "SessionExitError" /\ failures' = Failed("session_exit", 0, "raise")
    /\ pc' = "db_exit"
    /\ UNCHANGED <<callerVars, result, loopVars, ret, outcome, dbOpen, acquired, extracted, handed, effects>>

\* ------------------------------------------------------- account and mix
\* One pass of the loop up to the session: strip, extraction, the empty case.
\* The whole loop is inside the handler's try block.
PerUrlExtract(next, kind, emptyError) ==
    /\ idx <= Len(urls)
    /\ LET el == urls[idx]
           url == strip(el.v)
       IN
       IF el.t # "str"
       THEN /\ HandlerExcept(kind, "AttributeError")
            /\ UNCHANGED <<idx, ids, live_data, extracted, handed, effects, failures, responses>>
       ELSE IF url = <<>>
       THEN /\ idx' = idx + 1
            /\ UNCHANGED <<result, ids, live_data, pc, exc, ret, extracted, handed, effects, failures, responses>>
       ELSE \E r \in ExtractResults :
            /\ extracted' = Append(extracted, idx)
            /\ handed' = Append(handed, Handed("extract", PyStr(strip(el.v))))
            /\ Responds(r)
            /\ effects' = effects \cup {"extract"}
            /\ IF r = Raised
               THEN /\ HandlerExcept(kind, "ExtractError")
                    /\ failures' = Failed("extract", idx, "raise")
                    /\ UNCHANGED <<idx, ids, live_data>>
               ELSE IF r.v = <<>>
               THEN /\ result' = AddFailed(result, url, emptyError)
                    /\ failures' = Failed("extract", idx, "empty")
                    /\ idx' = idx + 1
                    /\ UNCHANGED <<ids, live_data, pc, exc, ret>>
               ELSE /\ ids' = r.v
                    /\ pc' = next
                    /\ UNCHANGED <<result, idx, exc, ret, failures>>
    /\ UNCHANGED <<inputVars, urls, all_ids, live_data, outcome, dbOpen, sessionVars>>

\* The body of the session: the fetch call and the bookkeeping of its result.
\* arg is what the fetch call is handed: user_ids[0] (lines 411-418) or
\* mix_ids (lines 573-575).
PerUrlFetch(next, emptyError, extra, arg) ==
    /\ effects' = effects \cup {"fetch"}
    /\ handed' = Append(handed, Handed("fetch", arg))
    /\ LET url == strip(urls[idx].v) IN
       \E data \in FetchResults : Responds(data) /\
         IF data = Raised
         THEN /\ exc' = "FetchError"
              /\ failures' = Failed("fetch", idx, "raise")
              /\ UNCHANGED result
         ELSE /\ UNCHANGED exc
              /\ IF Truthy(data)
                 THEN /\ result' = [AddSuccess(result, url, extra)
                                      EXCEPT !.downloaded_count = @ + CountOf(data)]
                      /\ UNCHANGED failures
                 ELSE /\ result' = AddFailed(result, url, emptyError)
                      /\ failures' = Failed("fetch", idx, "empty")
    /\ pc' = next
    /\ UNCHANGED <<inputVars, loopVars, ret, outcome, dbOpen, sessionVars, extracted>>

\* The statements after the loop: success is set whatever the items did.
PerUrlDone(kind) ==
    /\ idx > Len(urls)
    /\ result' = [result EXCEPT !.success = TRUE, !.message = Msg(kind, "", 0)]
    /\ pc' = "db_exit"
    /\ UNCHANGED <<inputVars, responses, loopVars, exc, ret, outcome, dbOpen, sessionVars, extracted, handed, effects, failures>>

\* _handle_account_action, lines 386-404
AccountExtract ==
    /\ pc = "account_loop"
    /\ PerUrlExtract("account_enter", "account_error", "no_account")

\* lines 407-408
AccountSessionEnter ==
    /\ pc = "account_enter"
    /\ SessionEnterCaught("account_fetch", "account_error")

\* lines 409-433
AccountFetch ==
    /\ pc = "account_fetch"
    /\ PerUrlFetch("account_exit", "account_fetch_failed", <<ids[1]>>, PyInt(ids[1]))

\* line 408, leaving the session
AccountSessionExit ==
    /\ pc = "account_exit"
    /\ SessionExitCaught("account_loop", "account_error", 1)

\* lines 435-436
AccountDone ==
    /\ pc = "account_loop"
    /\ PerUrlDone("account_done")

\* _handle_mix_action, lines 552-567 (lines 539-547 cannot fire: API_download
\* has already turned urls into a non-empty list)
MixExtract ==
    /\ pc = "mix_loop"
    /\ PerUrlExtract("mix_enter", "mix_error", "no_mix_id")

\* lines 570-571
MixSessionEnter ==
    /\ pc = "mix_enter"
    /\ SessionEnterCaught("mix_fetch", "mix_error")

\* lines 572-590
MixFetch ==
    /\ pc = "mix_fetch"
    /\ PerUrlFetch("mix_exit", "mix_fetch_failed", ids, PyList(ids))

\* line 571, leaving the session
MixSessionExit ==
    /\ pc = "mix_exit"
    /\ SessionExitCaught("mix_loop", "mix_error", 1)

\* lines 592-593
MixDone ==
    /\ pc = "mix_loop"
    /\ PerUrlDone("mix_done")

\* ------------------------------------------------------- _handle_live_action
\* lines 448-461
LiveExtract ==
    /\ pc = "live_loop"
    /\ PerUrlExtract("live_fetch", "live_error", "no_live_id")

\* what one get_live_data[_tiktok] call can do: raise, return None or data
LiveDataResults == {Raised, None, PyObject}

\* what extractor.run can do: raise, return None, or a list of entries,
\* each empty (0) or not (1)
LiveRunResults == {Raised, None} \cup {PyList(l) : l \in SeqsUpTo({0, 1}, MaxData)}

\* lines 464-467: one await of the list comprehension: get_live_data[_tiktok](i)
\* for the next i of ids.  When the call raises the list built so far is lost.
LiveGetData ==
    /\ pc = "live_fetch"
    /\ Len(live_data) < Len(ids)
    /\ effects' = effects \cup {"fetch"}
    /\ handed' = Append(handed, Handed("fetch", PyInt(ids[Len(live_data) + 1])))
    /\ \E r \in LiveDataResults : Responds(r) /\
         IF r = Raised
         THEN /\ HandlerExcept("live_error", "FetchError")
              /\ failures' = Failed("fetch", idx, "raise")
              /\ live_data' = <<>>
         ELSE /\ live_data' = Append(live_data, r)
              /\ UNCHANGED <<result, pc, exc, ret, failures>>
    /\ UNCHANGED <<inputVars, urls, idx, all_ids, ids, outcome, dbOpen, sessionVars, extracted>>

\* lines 469-484: extractor.run(live_data, None, "live") once the comprehension
\* is through, and the entry of the url
LiveExtractorRun ==
    /\ pc = "live_fetch"
    /\ Len(live_data) = Len(ids)
    /\ effects' = effects \cup {"extractor"}
    /\ live_data' = <<>>
    /\ LET url == strip(urls[idx].v) IN
       \E r \in LiveRunResults : Responds(r) /\
         IF r = Raised
         THEN /\ HandlerExcept("live_error", "FetchError")
              /\ failures' = Failed("fetch", idx, "raise")
              /\ UNCHANGED <<idx, all_ids>>
         ELSE LET kept == SelectSeq(r.v, LAMBDA i : i # 0) IN
              /\ IF Truthy(r) /\ kept # <<>>
                 THEN /\ all_ids' = all_ids \o kept
                      /\ result' = AddSuccess(result, url, <<Len(kept)>>)
                      /\ UNCHANGED failures
                 ELSE /\ result' = AddFailed(result, url, "live_fetch_failed")
                      /\ failures' = Failed("fetch", idx, "empty")
                      /\ UNCHANGED all_ids
              /\ idx' = idx + 1
              /\ pc' = "live_loop"
              /\ UNCHANGED <<exc, ret>>
    /\ UNCHANGED <<inputVars, urls, ids, outcome, dbOpen, sessionVars, extracted, handed>>

\* lines 486-499: show_live_info and downloader.run on the collected data
LiveFinish ==
    /\ pc = "live_loop"
    /\ idx > Len(urls)
    /\ IF all_ids = <<>>
       THEN /\ result' = [result EXCEPT !.message = Msg("no_live_data", "", 0)]
            /\ pc' = "db_exit"
            /\ UNCHANGED <<exc, ret, effects, failures, responses>>
       ELSE /\ effects' = effects \cup {"download"}
            /\ \E ok \in BOOLEAN : Responds(PyBool(ok)) /\
                 IF ok
                 THEN /\ result' = [result EXCEPT !.success = TRUE,
                                                  !.downloaded_count = Len(all_ids),
                                                  !.message = Msg("live_done", "", Len(all_ids))]
                      /\ pc' = "db_exit"
                      /\ UNCHANGED <<exc, ret, failures>>
                 ELSE /\ HandlerExcept("live_error", "DownloadError")
                      /\ failures' = Failed("download", 0, "raise")
    /\ UNCHANGED <<inputVars, loopVars, outcome, dbOpen, sessionVars, extracted, handed>>

\* ------------------------------------------------------- comment, user, collects
\* One pass of a loop that only collects identifiers (no details entry).
\* raiseTo is where an exception goes: "" for the handler's except clause,
\* otherwise the session exit that unwinds first.
CollectExtract(kind, raiseTo) ==
    /\ idx <= Len(urls)
    /\ LET el == urls[idx]
           Fails(e) == IF raiseTo = ""
                       THEN HandlerExcept(kind, e)
                       ELSE exc' = e /\ pc' = raiseTo /\ UNCHANGED <<result, ret>>
       IN
       IF el.t # "str"
       THEN Fails("AttributeError") /\ UNCHANGED <<idx, all_ids, extracted, handed, effects, failures, responses>>
       ELSE IF strip(el.v) = <<>>
       THEN /\ idx' = idx + 1
            /\ UNCHANGED <<result, all_ids, pc, exc, ret, extracted, handed, effects, failures, responses>>
       ELSE \E r \in ExtractResults :
            /\ extracted' = Append(extracted, idx)
            /\ handed' = Append(handed, Handed("extract", PyStr(strip(el.v))))
            /\ Responds(r)
            /\ effects' = effects \cup {"extract"}
            /\ IF r = Raised
               THEN /\ Fails("ExtractError")
                    /\ failures' = Failed("extract", idx, "raise")
                    /\ UNCHANGED <<idx, all_ids>>
               ELSE /\ all_ids' = all_ids \o r.v
                    /\ idx' = idx + 1
                    /\ failures' = (IF r.v = <<>> THEN Failed("extract", idx, "empty")
                                                 ELSE failures)
                    /\ UNCHANGED <<result, pc, exc, ret>>
    /\ UNCHANGED <<inputVars, urls, ids, live_data, outcome, dbOpen, sessionVars>>

\* _handle_comment_action, lines 509-516
CommentExtract ==
    /\ pc = "comment_loop"
    /\ CollectExtract("comment_error", "")

\* lines 518-531: comment_handle on the collected ids
CommentFinish ==
    /\ pc = "comment_loop"
    /\ idx > Len(urls)
    /\ IF all_ids = <<>>
       THEN /\ result' = [result EXCEPT !.message = Msg("no_ids_extracted", "", 0)]
            /\ pc' = "db_exit"
            /\ UNCHANGED <<exc, ret, handed, effects, failures, responses>>
       ELSE /\ effects' = effects \cup {"fetch"}
            /\ handed' = handed \o <<Handed("fetch", PyList(all_ids)),
                                      Handed("pages", max_pages)>>
            /\ \E ok \in BOOLEAN : Responds(PyBool(ok)) /\
                 IF ok
                 THEN /\ result' = [result EXCEPT !.success = TRUE,
                                                  !.downloaded_count = Len(all_ids),
                                                  !.message = Msg("comment_done", "", Len(all_ids))]
                      /\ pc' = "db_exit"
                      /\ UNCHANGED <<exc, ret, failures>>
                 ELSE /\ HandlerExcept("comment_error", "FetchError")
                      /\ failures' = Failed("fetch", 0, "raise")
    /\ UNCHANGED <<inputVars, loopVars, outcome, dbOpen, sessionVars, extracted>>

\* A fetch call made once for the whole invocation inside a session.  When
\* the data is truthy downloaded_count is len(all_user_ids) (countIds) or
\* the size of the data.
BatchFetch(next, okKind, failKind, countIds, arg) ==
    /\ effects' = effects \cup {"fetch"}
    /\ handed' = Append(handed, Handed("fetch", arg))
    /\ \E data \in FetchResults : Responds(data) /\
         IF data = Raised
         THEN /\ exc' = "FetchError"
              /\ failures' = Failed("fetch", 0, "raise")
              /\ UNCHANGED result
         ELSE /\ UNCHANGED exc
              /\ IF Truthy(data)
                 THEN /\ result' = [result EXCEPT !.success = TRUE,
                                                  !.downloaded_count =
                                                      IF countIds THEN Len(all_ids)
                                                                  ELSE CountOf(data),
                                                  !.message = Msg(okKind, "", 0)]
                      /\ UNCHANGED failures
                 ELSE /\ result' = [result EXCEPT !.message = Msg(failKind, "", 0)]
                      /\ failures' = Failed("fetch", 0, "empty")
    /\ pc' = next
    /\ UNCHANGED <<inputVars, loopVars, ret, outcome, dbOpen, sessionVars, extracted>>

\* _handle_user_action, lines 613-620 (lines 601-609 cannot fire)
UserExtract ==
    /\ pc = "user_loop"
    /\ CollectExtract("user_error", "")

\* lines 622-624
UserAfterLoop ==
    /\ pc = "user_loop"
    /\ idx > Len(urls)
    /\ IF all_ids = <<>>
       THEN /\ result' = [result EXCEPT !.message = Msg("no_user_ids", "", 0)]
            /\ pc' = "db_exit"
       ELSE /\ pc' = "user_enter"
            /\ UNCHANGED result
    /\ UNCHANGED <<inputVars, responses, loopVars, exc, ret, outcome, dbOpen, sessionVars, extracted, handed, effects, failures>>

\* lines 627-628
UserSessionEnter ==
    /\ pc = "user_enter"
    /\ SessionEnterCaught("user_fetch", "user_error")

\* lines 629-636
UserFetch ==
    /\ pc = "user_fetch"
    /\ BatchFetch("user_exit", "user_done", "user_failed", TRUE, PyList(all_ids))

\* line 628, leaving the session
UserSessionExit ==
    /\ pc = "user_exit"
    /\ SessionExitCaught("db_exit", "user_error", 0)

\* ------------------------------------------------------- search, hot
\* _handle_search_action, lines 650-651 (line 644 cannot fire: the keyword
\* was checked at line 160)
SearchSessionEnter ==
    /\ pc = "search_enter"
    /\ SessionEnterCaught("search_fetch", "search_error")

\* lines 652-666
SearchFetch ==
    /\ pc = "search_fetch"
    /\ BatchFetch("search_exit", "search_done", "search_failed", FALSE,
                  Get(kwargs.search_keyword, PyStr(<<>>)))

\* line 651, leaving the session
SearchSessionExit ==
    /\ pc = "search_exit"
    /\ SessionExitCaught("db_exit", "search_error", 0)

\* _handle_hot_action, lines 676-677
HotSessionEnter ==
    /\ pc = "hot_enter"
    /\ SessionEnterCaught("hot_fetch", "hot_error")

\* lines 678-685
HotFetch ==
    /\ pc = "hot_fetch"
    /\ BatchFetch("hot_exit", "hot_done", "hot_failed", FALSE, None)

\* line 677, leaving the session
HotSessionExit ==
    /\ pc = "hot_exit"
    /\ SessionExitCaught("db_exit", "hot_error", 0)

\* ------------------------------------------------------- _handle_collection_action
\* lines 695-696
CollectionSessionEnter ==
    /\ pc = "collection_enter"
    /\ SessionEnterCaught(IF action = "collects" THEN "collects_loop" ELSE "collection_fetch",
                       "collection_error")

\* lines 713-718 (lines 702-710 cannot fire), inside the session
CollectsExtract ==
    /\ pc = "collects_loop"
    /\ CollectExtract("collection_error", "collection_exit")

\* lines 720-722: no identifier, return from inside the session
CollectsAfterLoop ==
    /\ pc = "collects_loop"
    /\ idx > Len(urls)
    /\ IF all_ids = <<>>
       THEN /\ result' = [result EXCEPT !.message = Msg("no_collect_ids", "", 0)]
            /\ ret' = TRUE
            /\ pc' = "collection_exit"
       ELSE /\ pc' = "collection_fetch"
            /\ UNCHANGED <<result, ret>>
    /\ UNCHANGED <<inputVars, responses, loopVars, exc, outcome, dbOpen, sessionVars, extracted, handed, effects, failures>>

\* lines 697-700, 724-731
CollectionFetch ==
    /\ pc = "collection_fetch"
    /\ BatchFetch("collection_exit", "collection_done", "collection_failed", FALSE,
                  IF action = "collects" THEN PyList(all_ids) ELSE None)

\* line 696, leaving the session
CollectionSessionExit ==
    /\ pc = "collection_exit"
    /\ SessionExitCaught("db_exit", "collection_error", 0)

\* ------------------------------------------------------- specification
Next ==
    \/ ValidateAction \/ ValidateParams \/ InitObjects \/ DatabaseEnter
    \/ ReadConfig \/ ReadOption \/ CreateParameter \/ Dispatch \/ DatabaseExit
    \/ CloseClient \/ TopExcept \/ Return
    \/ DetailExtract \/ DetailAfterLoop \/ DetailSessionEnter \/ DetailFetch
    \/ DetailSessionExit
    \/ AccountExtract \/ AccountSessionEnter \/ AccountFetch \/ AccountSessionExit
    \/ AccountDone
    \/ MixExtract \/ MixSessionEnter \/ MixFetch \/ MixSessionExit \/ MixDone
    \/ LiveExtract \/ LiveGetData \/ LiveExtractorRun \/ LiveFinish
    \/ CommentExtract \/ CommentFinish
    \/ UserExtract \/ UserAfterLoop \/ UserSessionEnter \/ UserFetch \/ UserSessionExit
    \/ SearchSessionEnter \/ SearchFetch \/ SearchSessionExit
    \/ HotSessionEnter \/ HotFetch \/ HotSessionExit
    \/ CollectionSessionEnter \/ CollectsExtract \/ CollectsAfterLoop
    \/ CollectionFetch \/ CollectionSessionExit

Spec == Init /\ [][Next]_vars

\* ------------------------------------------------------- two calls in a row
\* The caller keeps the result of its first call and calls API_download again
\* with the same arguments.  The locals of the new call are new; the dict the
\* first call returned still exists, and lines 147-153 bind a new one.
NewLocals ==
    /\ pc' = "start"
    /\ outcome' = "running"
    /\ urls' = <<>>
    /\ idx' = 1
    /\ all_ids' = <<>>
    /\ ids' = <<>>
    /\ live_data' = <<>>
    /\ exc' = ""
    /\ ret' = FALSE
    /\ dbOpen' = FALSE
    /\ sessionOpen' = 0
    /\ acquired' = 0
    /\ released' = 0
    /\ extracted' = <<>>
    /\ handed' = <<>>
    /\ effects' = {}
    /\ failures' = <<>>
    /\ responses' = <<>>
    /\ refs' = NoRefs

CallAgain ==
    /\ pc = "done"
    /\ run = 1
    /\ other = NoOther
    /\ run' = 2
    /\ first' = [result |-> result, responses |-> responses]
    /\ NewLocals
    /\ UNCHANGED <<action, kwargs, result, me, other, issued, heap, overlapped,
                   csv_file, rows, markdown, csv_pc>>

\* in the second call every collaborator answers as it did in the first
SameResponses ==
    run = 2 =>
      /\ Len(responses') <= Len(first.responses)
      /\ \A k \in 1..Len(responses') : responses'[k] = first.responses[k]

NextTwice ==
    \/ Next /\ SameResponses
    \/ CallAgain

\* the urls of the repeated calls: omitted, one string, lists of strings
TwiceUrls == {Absent, PyStr(<<" ", "b", "\n">>),
              PyList(<<PyStr(<<"a">>), PyStr(<<" ", "b", "\n">>)>>)}

InitTwice == InitCall /\ run = 1 /\ me = 1 /\ other = NoOther /\ kwargs.urls \in TwiceUrls

SpecTwice == InitTwice /\ [][NextTwice]_vars

\* ------------------------------------------------------- two invocations in one event loop
\* the loop is at a url it will hand to the link extractor (a non-blank string)
AtExtraction == idx <= Len(urls) /\ urls[idx].t = "str" /\ strip(urls[idx].v) # <<>>

\* The next statement of the invocation is an `await` or an `async with`
\* line: the only places where it can be suspended.  Everything else is
\* synchronous: the validation and the constructors, lines 155-256, the
\* plain calls links.user (395, 618), links.mix (558) and links.collects
\* (716), and the statements after a loop that make no call.
AtAwait ==
    \/ pc \in {"db_enter", "read_config", "read_option", "db_exit", "close_client"}
    \/ pc \in {"detail_enter", "account_enter", "mix_enter", "user_enter",
               "search_enter", "hot_enter", "collection_enter"}
    \/ pc \in {"detail_fetch", "account_fetch", "mix_fetch", "live_fetch", "user_fetch",
               "search_fetch", "hot_fetch", "collection_fetch"}
    \/ pc \in {"detail_exit", "account_exit", "mix_exit", "user_exit",
               "search_exit", "hot_exit", "collection_exit"}
    \/ pc \in {"detail_loop", "live_loop", "comment_loop"} /\ AtExtraction
    \/ pc = "account_loop" /\ tiktok_platform /\ AtExtraction
    \/ pc \in {"live_loop", "comment_loop"} /\ idx > Len(urls) /\ all_ids # <<>>

\* The dict and the list a suspended invocation refers to.  Two names bound
\* to one object show one content: what the running invocation wrote last.
DictOf(c) == IF c.refs.result # 0 /\ c.refs.result = refs.result THEN result ELSE c.result

ListOf(c) == IF c.refs.urls # 0 /\ c.refs.urls = refs.urls THEN urls ELSE c.urls

\* The running invocation is suspended at an await, or has returned, and the
\* event loop resumes the other one.  Each invocation has its own arguments
\* and local names; the objects the names are bound to stay where they are,
\* so a name of the resumed invocation shows what was last written to its
\* object.
Switch ==
    /\ run = 1
    /\ other.pc \notin {"absent", "done"}
    /\ (pc = "done" \/ AtAwait)
    /\ other' = Context
    /\ me' = 3 - me
    /\ action' = other.action
    /\ kwargs' = other.kwargs
    /\ result' = DictOf(other)
    /\ urls' = ListOf(other)
    /\ refs' = other.refs
    /\ overlapped' = (overlapped \/ pc # "done")
    /\ idx' = other.idx
    /\ all_ids' = other.all_ids
    /\ ids' = other.ids
    /\ live_data' = other.live_data
    /\ pc' = other.pc
    /\ exc' = other.exc
    /\ ret' = other.ret
    /\ outcome' = other.outcome
    /\ dbOpen' = other.dbOpen
    /\ sessionOpen' = other.sessionOpen
    /\ acquired' = other.acquired
    /\ released' = other.released
    /\ extracted' = other.extracted
    /\ handed' = other.handed
    /\ effects' = other.effects
    /\ failures' = other.failures
    /\ responses' = other.responses
    /\ UNCHANGED <<run, first, issued, heap, csv_file, rows, markdown, csv_pc>>

\* Both invocations have returned; the caller makes the call of one of them
\* again, alone, and its collaborators answer as they did before.
CallAlone ==
    /\ run = 1
    /\ pc = "done"
    /\ other.pc = "done"
    /\ \E c \in {Context, other} :
         /\ first' = [result |-> IF c = other THEN DictOf(other) ELSE result,
                       responses |-> c.responses]
         /\ action' = c.action
         /\ kwargs' = c.kwargs
    /\ run' = 2
    /\ other' = NoOther
    /\ NewLocals
    /\ UNCHANGED <<result, me, issued, heap, overlapped, csv_file, rows, markdown, csv_pc>>

NextInterleaved ==
    \/ Next /\ SameResponses
    \/ Switch
    \/ CallAlone

\* the calls of the first invocation: every action, one url with blanks around
PairKwargs(a) ==
    [urls |-> IF a \in urls_list_actions THEN PyStr(<<" ", "b", "\n">>) ELSE Absent,
     tiktok |-> Absent,
     search_keyword |-> IF a = "search" THEN PyStr(<<"\t", "k", " ">>) ELSE Absent,
     search_type |-> "general", max_pages |-> Absent]

\* the calls of the second invocation
OtherCalls ==
    {ContextAt("detail", [NoKwargs EXCEPT !.urls = PyStr(<<"a">>)]),
     ContextAt("account", [NoKwargs EXCEPT !.urls = PyStr(<<"a">>)])}

InitInterleaved ==
    /\ InitCall
    /\ action \in Range(valid_actions)
    /\ kwargs = PairKwargs(action)
    /\ run = 1
    /\ me = 1
    /\ other \in OtherCalls

SpecInterleaved == InitInterleaved /\ [][NextInterleaved]_vars

\* ------------------------------------------- every call returns or raises
\* The event loop runs the coroutine until it returns (asyncio.run, line 317)
\* and every collaborator call answers: a step that can be taken is taken.
SpecFair == Spec /\ WF_vars(Next)

\* ------------------------------------------- a caller that watches the awaits
\* Variant of LiveDataCalls for a handler that starts the calls of all ids
\* at once and waits for them together (asyncio.gather)
LiveDataCalls_Gathered ==
    IF live_data = <<>> THEN [k \in 1..Len(ids) |-> "get_live_data"] ELSE <<>>

\* lines 464-467: `[await get_live_data(i) for i in ids]` starts the call of
\* one id and waits for its answer before it takes the next id
LiveDataCalls == <<"get_live_data">>

\* The collaborator calls the next statement of the invocation starts before
\* the invocation waits for an answer: one for an `await f(...)`, an
\* `async with` line or a plain call, none for a statement that calls no
\* collaborator.
NextCalls ==
    CASE pc = "init" -> <<"Database">>
      [] pc = "db_enter" -> <<"database.__aenter__">>
      [] pc = "read_config" -> <<"read_config_data">>
      [] pc = "read_option" -> <<"read_option_data">>
      [] pc = "parameter" -> <<"Parameter">>
      [] pc = "db_exit" -> <<"database.__aexit__">>
      [] pc = "close_client" -> <<"close_client">>
      [] pc \in {"detail_enter", "account_enter", "mix_enter", "user_enter",
                 "search_enter", "hot_enter", "collection_enter"} -> <<"record.__aenter__">>
      [] pc \in {"detail_exit", "account_exit", "mix_exit", "user_exit",
                 "search_exit", "hot_exit", "collection_exit"} -> <<"record.__aexit__">>
      [] pc = "live_fetch" -> IF Len(live_data) < Len(ids) THEN LiveDataCalls
                                                            ELSE <<"extractor.run">>
      [] pc \in {"detail_fetch", "account_fetch", "mix_fetch", "user_fetch",
                 "search_fetch", "hot_fetch", "collection_fetch"} -> <<"fetch">>
      [] pc \in {"detail_loop", "account_loop", "mix_loop", "live_loop", "comment_loop",
                 "user_loop", "collects_loop"} /\ AtExtraction -> <<"link_extractor">>
      [] pc \in {"live_loop", "comment_loop"} /\ idx > Len(urls) /\ all_ids # <<>> ->
             <<"downloader">>
      [] OTHER -> <<>>

\* The statement starts its calls once every earlier call has answered, and
\* the invocation does nothing else until they answer.
AwaitCall ==
    /\ run = 1
    /\ issued = Len(responses)
    /\ NextCalls # <<>>
    /\ issued' = issued + Len(NextCalls)
    /\ UNCHANGED <<action, kwargs, result, urls, idx, all_ids, ids, live_data, pc, exc, ret, outcome,
                   dbOpen, sessionOpen, acquired, released, extracted, handed, effects,
                   failures, responses, run, first, me, other, refs, heap, overlapped,
                   csv_file, rows, markdown, csv_pc>>

\* a call answers after it was started, and a statement that makes no call
\* runs when no call is waited for
Answered ==
    IF Len(responses') > Len(responses) THEN issued > Len(responses)
                                        ELSE issued = Len(responses)

NextAwait ==
    \/ AwaitCall
    \/ Next /\ Answered

InitAwait ==
    /\ InitCall
    /\ run = 1
    /\ me = 1
    /\ other = NoOther
    /\ kwargs.urls \in TwiceUrls

SpecAwait == InitAwait /\ [][NextAwait]_vars

\* ---------------------------------- test_downloads.py: read_csv_first_rows
\* the cells of a file's rows: strings, as sequences of characters
CsvCells == {<<"a">>, <<"b">>}

\* the rows csv.reader can give: up to n cells each
CsvRowsOf(n) == UNION {[1..k -> CsvCells] : k \in 0..n}

\* the files: up to MaxCsvRows rows, in file order
CsvFiles == UNION {[1..k -> CsvRowsOf(MaxCells)] : k \in 0..MaxCsvRows}

\* lines 46-49: for i, row in enumerate(reader): if i >= rows: break;
\* data.append(row)
RECURSIVE ReadRows(_, _, _)
ReadRows(lines, i, n) ==
    IF i >= Len(lines) \/ i >= n THEN <<>>
    ELSE <<lines[i + 1]>> \o ReadRows(lines, i + 1, n)

\* sep.join(cells)
RECURSIVE Join(_, _)
Join(sep, cells) ==
    IF cells = <<>> THEN <<>>
    ELSE IF Len(cells) = 1 THEN cells[1]
    ELSE cells[1] \o sep \o Join(sep, Tail(cells))

\* s * n
RECURSIVE Repeat(_, _)
Repeat(s, n) == IF n <= 0 THEN <<>> ELSE s \o Repeat(s, n - 1)

\* lines 68-69: while len(row) < len(data[0]): row.append("")
RECURSIVE Pad(_, _)
Pad(row, n) == IF Len(row) < n THEN Pad(Append(row, <<>>), n) ELSE row

\* line 70: "| " + " | ".join(row[:len(data[0])]) + " |\n"
TableRow(row, n) ==
    <<"|", " ">> \o Join(<<" ", "|", " ">>, SubSeq(Pad(row, n), 1, n)) \o <<" ", "|", "\n">>

\* lines 66-70: for row in data[1:]
RECURSIVE TableRows(_, _)
TableRows(rs, n) ==
    IF rs = <<>> THEN <<>> ELSE TableRow(rs[1], n) \o TableRows(Tail(rs), n)

\* a returned text: which of the fixed texts it starts with, and what follows
CsvText(kind, text) == [kind |-> kind, text |-> text]

\* lines 40-75
read_csv_first_rows(f, n) ==
    IF ~f.readable
    THEN CsvText("read_failed", <<>>)
    ELSE LET data == ReadRows(f.lines, 0, n) IN
         IF data = <<>>
         THEN CsvText("empty", <<>>)
         ELSE IF Len(data) = 1
         THEN CsvText("header_only", Join(<<",", " ">>, data[1]))
         ELSE CsvText("table",
                      <<"|", " ">> \o Join(<<" ", "|", " ">>, data[1]) \o <<" ", "|", "\n">>
                      \o <<"|">> \o Repeat(<<"-", "-", "-", "|">>, Len(data[1])) \o <<"\n">>
                      \o TableRows(Tail(data), Len(data[1])))

\* line 78: the function is called and returns its text
ReadCsvFirstRows ==
    /\ csv_pc = "call"
    /\ markdown' = read_csv_first_rows(csv_file, rows)
    /\ csv_pc' = "done"
    /\ UNCHANGED <<action, kwargs, result, urls, idx, all_ids, ids, live_data, pc, exc, ret, outcome,
                   dbOpen, sessionOpen, acquired, released, extracted, handed, effects,
                   failures, responses, run, first, me, other, issued, refs, heap, overlapped,
                   csv_file, rows>>

NextCsv == ReadCsvFirstRows

\* a call of read_csv_first_rows on some file with some rows argument
InitCsv ==
    /\ InitApi
    /\ action = "hot"
    /\ kwargs = NoKwargs
    /\ run = 0
    /\ me = 1
    /\ other = NoOther
    /\ csv_file \in {[readable |-> FALSE, lines |-> <<>>]}
                       \cup {[readable |-> TRUE, lines |-> l] : l \in CsvFiles}
    /\ rows \in 0..(MaxCsvRows + 1)
    /\ markdown = CsvText("", <<>>)
    /\ csv_pc = "call"

SpecCsv == InitCsv /\ [][NextCsv]_vars

TypeOK ==
    /\ issued \in Nat
    /\ heap.objects \in Nat
    /\ \A o \in heap.opened : o \in 1..heap.objects
    /\ \A n \in DOMAIN refs : refs[n] \in 0..heap.objects
    /\ overlapped \in BOOLEAN
    /\ pc \in STRING
    /\ outcome \in {"running", "returned", "raised"}
    /\ sessionOpen \in 0..1
    /\ result.downloaded_count \in Nat
    /\ result.failed_count \in Nat
    /\ run \in 0..2
    /\ me \in 1..2
    /\ Len(responses) = 0 \/ run # 0

\* ------------------------------------------------------- vocabulary of the claims
Done == pc = "done"

ResultFields == {"success", "message", "downloaded_count", "failed_count", "details"}

SupportedNames == {"detail", "detail_unofficial", "account", "live", "comment", "mix",
                   "user", "search", "hot", "collection", "collection_music", "collects"}

\* the result of a call rejected before any work: failed, nothing counted
EmptyFailure ==
    /\ result.success = FALSE
    /\ result.downloaded_count = 0
    /\ result.failed_count = 0
    /\ result.details = <<>>

\* no handler, extractor, fetch or recorder session was touched
NoBatchWork ==
    /\ effects \cap {"handler", "extract", "fetch", "session", "download"} = {}
    /\ acquired = 0
    /\ extracted = <<>>

AllStrings == \A i \in 1..Len(urls) : urls[i].t = "str"
NonBlank(i) == urls[i].t = "str" /\ strip(urls[i].v) # <<>>
NonBlankCount == Cardinality({i \in 1..Len(urls) : NonBlank(i)})
IsNonBlankStr(e) == e.t = "str" /\ strip(e.v) # <<>>
\* the non-blank inputs, trimmed, in input order
NonBlankUrls ==
    LET kept == SelectSeq(urls, IsNonBlankStr)
    IN [k \in 1..Len(kept) |-> strip(kept[k].v)]
DetailUrls == [k \in 1..Len(result.details) |-> result.details[k].url]

\* validation passed: API_download went on to build its objects
ValidationPassed == "Database" \in effects

\* ------------------------------------------------------- C1
\* C1: API_download is total: whatever the action, the urls and options, and
\* whichever collaborator raises an Exception, the call raises nothing and
\* returns a result dict with the fields success, message, downloaded_count,
\* failed_count and details.
C1_DispatchIsTotal ==
    /\ outcome # "raised"
    /\ Done => /\ outcome = "returned"
               /\ DOMAIN result = ResultFields

\* a call that returned although a collaborator raised
C1_Witness ==
    /\ Done
    /\ outcome = "returned"
    /\ \E k \in 1..Len(failures) : failures[k].how = "raise"

\* ------------------------------------------------------- C2
\* C2: in the URL-list handlers (detail, detail_unofficial, account, live,
\* mix) a failed extraction or fetch of one item (exception or empty result)
\* never keeps the later items from being processed: when the call is over,
\* the extraction of every non-blank url has been called.
C2_LaterItemsStillProcessed ==
    ( /\ Done
      /\ action \in {"detail", "detail_unofficial", "account", "live", "mix"}
      /\ "handler" \in effects
      /\ AllStrings
      /\ \A k \in 1..Len(failures) : failures[k].op \in {"extract", "fetch"} )
    => \A i \in 1..Len(urls) : NonBlank(i) => i \in Range(extracted)

\* ------------------------------------------------------- C3
\* C3: for detail, account, live and mix, a batch of n >= 2 non-blank inputs
\* in which exactly one extraction fails (raises or returns nothing) and no
\* other call fails gives details of length n in input order, failed_count 1,
\* success true, and a non-empty error on the failed item's entry.
C3_OneFailedExtraction ==
    ( /\ Done
      /\ action \in {"detail", "account", "live", "mix"}
      /\ AllStrings
      /\ NonBlankCount >= 2
      /\ Len(failures) = 1
      /\ failures[1].op = "extract" )
    => /\ Len(result.details) = NonBlankCount
       /\ DetailUrls = NonBlankUrls
       /\ result.failed_count = 1
       /\ result.success = TRUE
       /\ \E k \in 1..Len(result.details) :
            /\ result.details[k].status = "failed"
            /\ result.details[k].error # ""
            /\ result.details[k].url = strip(urls[failures[1].i].v)

\* ------------------------------------------------------- C4
\* the handler of an item-count action ran to its last statement
ItemCountHandlerCompleted ==
    result.message.kind \in {"detail_done", "download_error", "no_ids_extracted",
                             "account_done", "mix_done"}

\* C4: for detail, detail_unofficial, account and mix, when the call completes
\* downloaded_count + failed_count is the number of non-blank input urls,
\* whatever number of identifiers or works a url yields and whether or not
\* the fetch fails.
C4_CountsAddUpToItems ==
    ( /\ Done
      /\ action \in {"detail", "detail_unofficial", "account", "mix"}
      /\ AllStrings
      /\ ItemCountHandlerCompleted )
    => result.downloaded_count + result.failed_count = NonBlankCount

\* ------------------------------------------------------- C5
\* C5: success is false whenever zero usable results were produced: if every
\* input item failed (empty or failed extraction or fetch, nothing else went
\* wrong), the returned result has success == false.
C5_NoResultsMeansFailure ==
    ( /\ Done
      /\ "handler" \in effects
      /\ \A k \in 1..Len(failures) : failures[k].op \in {"extract", "fetch"}
      /\ result.downloaded_count = 0
      /\ \A k \in 1..Len(result.details) : result.details[k].status = "failed" )
    => result.success = FALSE

\* ------------------------------------------------------- C6
\* C6: whenever an exception reaches the top-level except clause of
\* API_download, the returned result is a failed one: success == false and
\* message carries the error text, also when the exception is raised after
\* the handler finished (session exit, database exit, close_client).
C6_TopLevelErrorIsFailure ==
    (Done /\ result.message.kind = "init_error")
    => /\ result.success = FALSE
       /\ result.message.arg # ""

\* ------------------------------------------------------- C7
\* C7: an action name outside the 12 supported names gives success false,
\* zero counts, empty details and a message listing the 12 supported names,
\* and neither the database, a recorder session, a handler, an extractor nor
\* a fetch is touched.
C7_UnknownActionRejected ==
    (Done /\ action \notin SupportedNames)
    => /\ outcome = "returned"
       /\ EmptyFailure
       /\ result.message.kind = "invalid_action"
       /\ Len(result.message.names) = 12
       /\ Range(result.message.names) = SupportedNames
       /\ effects = {}
       /\ NoBatchWork
       /\ ~dbOpen

\* a call with an unsupported action name has returned
C7_Witness ==
    /\ Done
    /\ action = "bogus"
    /\ result.message.arg = "bogus"

\* ------------------------------------------------------- C8
\* C8: with tiktok=true and the required input present, comment, user,
\* search, hot, collection, collection_music and collects return success
\* false, zero counts, empty details and a platform-unsupported message
\* without any extraction, fetch or recorder call; detail, detail_unofficial,
\* account, live and mix are never rejected for platform reasons.
C8_PlatformRejection ==
    /\ ( /\ Done
         /\ tiktok_platform
         /\ ValidationPassed
         /\ action \in {"comment", "user", "search", "hot", "collection",
                        "collection_music", "collects"} )
       => /\ EmptyFailure
          /\ result.message.kind = "platform_unsupported"
          /\ NoBatchWork
    /\ action \in {"detail", "detail_unofficial", "account", "live", "mix"}
       => result.message.kind # "platform_unsupported"

\* ------------------------------------------------------- C9
ValidationFailureKinds ==
    {"invalid_action", "urls_required", "search_keyword_required", "no_valid_links",
     "urls_format_error", "platform_unsupported"}

\* C9: every validation failure (unknown action, missing input, malformed
\* urls type, platform-unsupported) is reported before any work starts: when
\* the failure result is returned no database context was opened, no
\* configuration was read and no Parameter object was constructed.
C9_ValidationBeforeWork ==
    (Done /\ result.message.kind \in ValidationFailureKinds)
    => effects = {}

\* ------------------------------------------------------- C10
\* the urls values of the claim: omitted, None, "", [] and lists of blanks
NoUrlsGiven ==
    \/ kwargs.urls \in {Absent, None, PyStr(<<>>)}
    \/ /\ kwargs.urls.t = "list"
       /\ \A i \in 1..Len(kwargs.urls.v) :
            kwargs.urls.v[i] \in {PyStr(<<>>), PyStr(<<"\t", VT>>)}

\* C10: for detail, detail_unofficial, account, live, comment, mix and user,
\* a urls argument that is "", [], ["", "\t\v"], None or omitted gives success
\* false, zero counts and empty details, without an exception and without
\* any handler, extractor or recorder being invoked.
C10_MissingUrlsRejected ==
    ( /\ Done
      /\ action \in {"detail", "detail_unofficial", "account", "live", "comment",
                     "mix", "user"}
      /\ NoUrlsGiven )
    => /\ outcome = "returned"
       /\ EmptyFailure
       /\ result.message.kind \in {"urls_required", "no_valid_links"}
       /\ NoBatchWork

\* the list ["", "\t\v"] was rejected for an input-requiring action
C10_Witness ==
    /\ Done
    /\ action = "mix"
    /\ kwargs.urls = PyList(<<PyStr(<<>>), PyStr(<<"\t", VT>>)>>)
    /\ result.message.kind = "no_valid_links"

\* ------------------------------------------------------- C11
\* the caller's urls as a list of items: a string is one item
InputItems ==
    IF kwargs.urls.t = "str" THEN <<kwargs.urls>>
    ELSE IF kwargs.urls.t = "list" THEN kwargs.urls.v
    ELSE <<>>

SpaceChars == {" ", "\t", "\n", "\r", "\f"} \cup {VT, FS, GS, RS, US} \cup {NEL, NBSP, OghamSpace}
OnlySpaces(s) == \A i \in 1..Len(s) : s[i] \in SpaceChars

\* s without its leading and trailing spaces
Trimmed(s) ==
    IF OnlySpaces(s) THEN <<>>
    ELSE LET inked == {i \in 1..Len(s) : s[i] \notin SpaceChars}
             lo == CHOOSE i \in inked : \A j \in inked : i <= j
             hi == CHOOSE i \in inked : \A j \in inked : j <= i
         IN SubSeq(s, lo, hi)

KeptItem(e) == e.t = "str" /\ ~OnlySpaces(e.v)

\* what normalisation should leave: the non-blank strings, trimmed, in order
ExpectedItems ==
    LET kept == SelectSeq(InputItems, KeptItem)
    IN [k \in 1..Len(kept) |-> Trimmed(kept[k].v)]

IsExtractCall(h) == h.to = "extract"

\* the urls handed to the link extractor, in call order
ExtractedUrls ==
    LET calls == SelectSeq(handed, IsExtractCall)
    IN [k \in 1..Len(calls) |-> calls[k].v.v]

IsPrefix(a, b) == Len(a) <= Len(b) /\ \A k \in 1..Len(a) : a[k] = b[k]

\* the handler ran its loop to the end: every element was a string and no
\* collaborator raised
LoopRanThrough ==
    /\ Done
    /\ "handler" \in effects
    /\ \A i \in 1..Len(InputItems) : InputItems[i].t = "str"
    /\ \A k \in 1..Len(failures) : failures[k].how # "raise"

\* C11: input normalisation trims and keeps the order: a single string url
\* with surrounding whitespace is processed as exactly one item whose
\* recorded url is the trimmed string; the blank elements of a list are
\* dropped without a details entry or a failure, and the others are
\* processed, trimmed, in their original order.
C11_TrimmedInOrder ==
    /\ IsPrefix(ExtractedUrls, ExpectedItems)
    /\ IsPrefix(DetailUrls, ExtractedUrls)
    /\ \A k \in 1..Len(failures) :
         failures[k].i # 0 => KeptItem(InputItems[failures[k].i])
    /\ LoopRanThrough => ExtractedUrls = ExpectedItems
    /\ (LoopRanThrough /\ action \in {"detail", "detail_unofficial", "account", "live", "mix"})
       => DetailUrls = ExpectedItems

\* the list ["\t\v", " b\n"] was processed as the one item "b"
C11_Witness ==
    /\ Done
    /\ action = "detail"
    /\ kwargs.urls = PyList(<<PyStr(<<"\t", VT>>), PyStr(<<" ", "b", "\n">>)>>)
    /\ ExtractedUrls = << <<"b">> >>
    /\ DetailUrls = << <<"b">> >>
    /\ result.success = TRUE
    /\ result.failed_count = 0

\* ------------------------------------------------------- C12
\* the urls value is neither a string nor a list of strings
NotStringsValue ==
    \/ kwargs.urls.t \in {"int", "tuple"}
    \/ /\ kwargs.urls.t = "list"
       /\ \E i \in 1..Len(kwargs.urls.v) : kwargs.urls.v[i].t # "str"

\* C12: for a url-taking action, a urls value that is neither a string nor a
\* list of strings (a number, a tuple, a list holding a non-string element
\* next to valid strings) is rejected as a validation failure: success
\* false, zero counts, empty details, and no handler, extractor or recorder
\* was invoked.  The case considered is the Douyin platform with no
\* collaborator failing.
C12_NonStringUrlsRejected ==
    ( /\ Done
      /\ action \in urls_list_actions
      /\ NotStringsValue
      /\ ~tiktok_platform
      /\ failures = <<>> )
    => /\ EmptyFailure
       /\ NoBatchWork
       /\ result.message.kind \in {"urls_required", "no_valid_links", "urls_format_error"}

\* ------------------------------------------------------- C13
\* C13: on every exit path of API_download taken after the Parameter object
\* and its client were created (the handler returned, the handler raised, a
\* recorder session could not be acquired, the platform-unsupported return),
\* parameter.close_client() was called before the result is returned.
C13_ClientAlwaysClosed ==
    (Done /\ "client" \in effects) => "close_client" \in effects

\* ------------------------------------------------------- C14
\* C14: every recorder session a handler acquires is released exactly once,
\* on every path (normal completion, early return, the body's fetch
\* raising): a release always follows its own acquisition, no session is
\* released twice, and none is still held when the call returns.
C14_SessionsReleasedOnce ==
    /\ released <= acquired
    /\ acquired <= released + 1
    /\ sessionOpen = acquired - released
    /\ Done => released = acquired

\* the fetch of an account item raised inside its session, and the session
\* was released before the call returned
C14_Witness ==
    /\ Done
    /\ action = "account"
    /\ acquired = 1
    /\ released = 1
    /\ \E k \in 1..Len(failures) : failures[k].op = "fetch" /\ failures[k].how = "raise"

\* ------------------------------------------------------- C15
\* a recorder session could not be acquired (__aenter__ raised)
AcquireFailed == \E k \in 1..Len(failures) : failures[k].op = "session_enter"

IsFetchCall(h) == h.to = "fetch"

\* the fetch calls made so far, in call order
FetchCalls == SelectSeq(handed, IsFetchCall)

\* C15: when acquiring a recorder session fails, the body of that session
\* is never run (no fetch is made from then on, and no session is held),
\* and the result that is returned has success false.
C15_FailedAcquireSkipsBody ==
    /\ [](AcquireFailed => sessionOpen = 0)
    /\ []((Done /\ AcquireFailed) => result.success = FALSE)
    /\ [][AcquireFailed => FetchCalls' = FetchCalls]_vars

\* the first account item was fetched under its session, the session of the
\* second could not be acquired and no second fetch was made
C15_Witness ==
    /\ Done
    /\ action = "account"
    /\ AcquireFailed
    /\ Len(ExtractedUrls) = 2
    /\ Len(FetchCalls) = 1
    /\ result.downloaded_count > 0

\* ------------------------------------------------------- C18
FailedEntries == {k \in 1..Len(result.details) : result.details[k].status = "failed"}

\* C18: in every returned result failed_count is the number of details
\* entries whose status is 'failed', for every action and every outcome,
\* also when the batch fetch of the detail handler raises after items were
\* extracted.
C18_FailedCountMatchesDetails ==
    Done => result.failed_count = Cardinality(FailedEntries)

\* ------------------------------------------------------- C19
\* C19: for every url-taking action (detail, detail_unofficial, account,
\* live, comment, mix, user, collects), when the handler completes, details
\* holds exactly one entry per non-blank input url, in input order.
C19_OneEntryPerUrl ==
    (LoopRanThrough /\ action \in urls_list_actions)
    => DetailUrls = ExpectedItems

\* ------------------------------------------------------- C20
\* str(e) of the exception a collaborator call raised
ErrorText(op) == IF op = "extract" THEN "ExtractError" ELSE "FetchError"

\* the failures of one item: the extraction or the fetch of loop position i raised
ItemRaised(k) ==
    /\ failures[k].op \in {"extract", "fetch"}
    /\ failures[k].how = "raise"
    /\ failures[k].i # 0

\* C20: the top-level message never carries the raw error text of a
\* per-item failure: when the extraction or the fetch of one item raises,
\* the error text is in that item's details entry and not in message.
C20_ItemErrorsStayInDetails ==
    Done =>
      \A k \in 1..Len(failures) :
        ItemRaised(k) =>
          /\ result.message.arg # ErrorText(failures[k].op)
          /\ \E d \in 1..Len(result.details) :
               /\ result.details[d].url = Trimmed(InputItems[failures[k].i].v)
               /\ result.details[d].error = ErrorText(failures[k].op)

\* ------------------------------------------------------- C16
\* the second call has returned and its collaborators answered as in the first
SecondCallDone == Done /\ run = 2 /\ responses = first.responses

\* C16: two API_download calls with the same action, credentials and
\* options, whose collaborators give the same responses both times, return
\* results equal in success, downloaded_count, failed_count and in the
\* content and order of details.
C16_SameCallSameResult ==
    SecondCallDone =>
      /\ result.success = first.result.success
      /\ result.downloaded_count = first.result.downloaded_count
      /\ result.failed_count = first.result.failed_count
      /\ result.details = first.result.details

\* both calls recorded a failed and a successful item, in the same order
C16_Witness ==
    /\ SecondCallDone
    /\ Len(result.details) = 2
    /\ result.details[1].status = "failed"
    /\ result.details[2].status = "success"
    /\ result.downloaded_count > 0

\* ------------------------------------------------------- C17
\* the recorder session a suspended invocation holds is entered and not left
SessionHeld(c) == c.refs.record \in heap.opened

\* C17: two API_download invocations interleaved at their suspension points
\* each return the result they return when run alone with the same
\* collaborator responses, and a step of the running invocation leaves the
\* result dict, the input list and the recorder session of the suspended
\* one as they were: the objects the suspended invocation refers to keep
\* their content, and its session stays entered or not entered.
C17_InterleavingKeepsResults ==
    /\ []((Done /\ run = 2 /\ responses = first.responses) => result = first.result)
    /\ [][(run' = 1 /\ me' = me) =>
            /\ DictOf(other)' = DictOf(other)
            /\ ListOf(other)' = ListOf(other)
            /\ SessionHeld(other)' = SessionHeld(other)]_vars

\* the invocation called with " b " ran in the event loop while the other
\* invocation was suspended at an await, recorded its item as failed, and
\* recorded it again when called alone
C17_Witness ==
    /\ Done
    /\ run = 2
    /\ overlapped
    /\ responses = first.responses
    /\ Len(result.details) = 1
    /\ result.details[1].url = <<"b">>
    /\ result.details[1].status = "failed"

\* ------------------------------------------------------------------ C21
\* the page limit the docstring of API_download states as the default (line 104)
Unlimited == 99999

\* a call that is handed the page limit: Parameter(max_pages=...) and
\* comment_handle(pages=...)
IsPagesCall(c) == c.to \in {"Parameter", "pages"}

\* C21: when the caller leaves max_pages out, the page limit handed to the
\* backend (the Parameter object and the pages argument of comment_handle)
\* is 99999
C21_DefaultPagesUnlimited ==
    kwargs.max_pages = Absent =>
        \A i \in 1..Len(handed) :
            IsPagesCall(handed[i]) => handed[i].v = PyInt(Unlimited)

\* ------------------------------------------------------------------ C22
\* the extraction and fetch calls made so far, in call order
ItemCalls == SelectSeq(handed, LAMBDA c : c.to \in {"extract", "fetch"})

\* the extraction call of loop position i raised or returned no identifier
ExtractionFailed(i) ==
    \E k \in 1..Len(failures) : failures[k].op = "extract" /\ failures[k].i = i

\* the item before the one whose extraction is being called is resolved: its
\* extraction failed, or the last call before this one is its fetch call
PreviousItemResolved ==
    \/ ExtractionFailed(extracted[Len(extracted)])
    \/ ItemCalls[Len(ItemCalls)].to = "fetch"

\* C22: items are processed in input order and each item is resolved before
\* the next one starts: no extraction call is made for the next item before
\* the fetch call of the item before it has returned or raised
C22_ItemResolvedBeforeNext ==
    [][(Len(extracted') > Len(extracted) /\ Len(extracted) > 0) =>
           /\ extracted'[Len(extracted')] > extracted[Len(extracted)]
           /\ PreviousItemResolved]_vars

\* ------------------------------------------------------------------ C23
\* one fetch call raised and no other collaborator call failed
OnlyAFetchRaised ==
    /\ Len(failures) = 1
    /\ failures[1].op = "fetch"
    /\ failures[1].how = "raise"

\* C23: when the extraction of an item succeeds and the fetch call that
\* follows raises, the failure is recorded against that item (a details
\* entry with status failed and an error), and the other items are still
\* processed and keep their entries.
C23_FetchErrorRecordedOnItem ==
    ( /\ Done
      /\ action \in {"detail", "detail_unofficial", "account", "mix"}
      /\ AllStrings
      /\ OnlyAFetchRaised )
    => /\ \E d \in 1..Len(result.details) :
            /\ result.details[d].status = "failed"
            /\ result.details[d].error # ""
       /\ \A i \in 1..Len(urls) : NonBlank(i) => i \in Range(extracted)
       /\ Len(result.details) = NonBlankCount

\* ------------------------------------------------------------------ C24
\* some extraction returned no identifier and nothing else went wrong
OnlyEmptyExtractions ==
    /\ failures # <<>>
    /\ \A k \in 1..Len(failures) :
         failures[k].op = "extract" /\ failures[k].how = "empty"

\* C24: for every url-taking action an input whose extraction returns no
\* identifier is a failure: failed_count counts it, details holds a failed
\* entry with an error for it, and the inputs after it are still processed.
C24_EmptyExtractionIsFailure ==
    ( /\ Done
      /\ action \in urls_list_actions
      /\ AllStrings
      /\ OnlyEmptyExtractions )
    => /\ result.failed_count >= Len(failures)
       /\ \A k \in 1..Len(failures) :
            \E d \in 1..Len(result.details) :
               /\ result.details[d].url = Trimmed(InputItems[failures[k].i].v)
               /\ result.details[d].status = "failed"
               /\ result.details[d].error # ""
       /\ \A i \in 1..Len(urls) : NonBlank(i) => i \in Range(extracted)

\* ------------------------------------------------------------------ C25
\* the search_keyword argument ('' when it is left out)
Keyword == Get(kwargs.search_keyword, PyStr(<<>>))

\* the keyword is a string that is empty once trimmed
KeywordBlank == Keyword.t = "str" /\ OnlySpaces(Keyword.v)

\* C25: for search, a keyword that is empty after trimming is rejected with
\* success == false before any search call is made, and otherwise the
\* keyword handed to the search backend is the trimmed keyword.
C25_SearchKeywordTrimmed ==
    action = "search" =>
      /\ KeywordBlank => /\ FetchCalls = <<>>
                         /\ "session" \notin effects
                         /\ Done => result.success = FALSE
      /\ \A i \in 1..Len(FetchCalls) :
            FetchCalls[i].v = PyStr(Trimmed(Keyword.v))

\* ------------------------------------------------------------------ C26
\* collaborator calls started and not answered yet
InFlight == issued - Len(responses)

\* C26: within one invocation at most one collaborator call (extraction,
\* fetch, recorder enter or exit) is in flight at any time: a call is started
\* only when every earlier call has answered, so the calls of two items
\* never overlap.
C26_OneCallInFlight == InFlight \in 0..1

\* the second url of a live batch gave two ids: the call for the first id has
\* answered, the call for the second id is in flight, and every call made for
\* the first url answered before
C26_Witness ==
    /\ InFlight = 1
    /\ pc = "live_fetch"
    /\ Len(urls) = 2
    /\ idx = 2
    /\ extracted = <<1, 2>>
    /\ Len(ids) = 2
    /\ Len(live_data) = 1
    /\ Cardinality({i \in 1..Len(handed) : handed[i].to = "fetch"}) = 2

\* ------------------------------------------------------------------ C27
\* C27: at every point of an invocation at most one recorder session is open
\* (sessions are never nested), and when the call returns, normally, by an
\* early return or after an exception, no recorder session and no database
\* context is left open.
C27_NothingLeftOpen ==
    /\ sessionOpen \in 0..1
    /\ sessionOpen = acquired - released
    /\ Done => sessionOpen = 0 /\ dbOpen = FALSE

\* a call that entered the database and a session returned after a fetch raised
C27_Witness ==
    /\ Done
    /\ "db_enter" \in effects
    /\ acquired >= 1
    /\ \E k \in 1..Len(failures) : failures[k].op = "fetch" /\ failures[k].how = "raise"

\* ------------------------------------------------------------------ C28
\* extraction calls that returned at least one identifier
SuccessfulExtractions ==
    Len(extracted) - Cardinality({k \in 1..Len(failures) : failures[k].op = "extract"})

\* recorder sessions the handler tried to enter
SessionAttempts ==
    acquired + Cardinality({k \in 1..Len(failures) : failures[k].op = "session_enter"})

\* C28: a recorder session is opened and a fetch is issued only after
\* extraction produced an identifier.  In the detail and user handlers, when
\* no url gave an identifier, no session is opened, no fetch is made and
\* success stays false; in the account and mix handlers no session is opened
\* (and no fetch made) for a url whose extraction returned nothing.
C28_SessionOnlyAfterIdentifiers ==
    /\ action \in {"detail", "detail_unofficial", "user"} =>
          /\ (SessionAttempts > 0 \/ FetchCalls # <<>>) => SuccessfulExtractions >= 1
          /\ SuccessfulExtractions = 0 => result.success = FALSE
    /\ action \in {"account", "mix"} =>
          /\ SessionAttempts <= SuccessfulExtractions
          /\ Len(FetchCalls) <= SuccessfulExtractions

\* a detail or user call returned after every url gave no identifier
C28_Witness ==
    /\ Done
    /\ action \in {"detail", "user"}
    /\ Len(extracted) = 2
    /\ SuccessfulExtractions = 0
    /\ \A k \in 1..Len(failures) : failures[k].how = "empty"
    /\ "session" \notin effects

\* ------------------------------------------------------------------ C29
\* C29: in every returned result success == false implies
\* downloaded_count == 0, whatever item fails (its extraction or its fetch)
\* and wherever in the batch.
C29_FailedMeansNothingDownloaded ==
    ( /\ Done
      /\ AllStrings
      /\ \A k \in 1..Len(failures) : failures[k].op \in {"extract", "fetch"}
      /\ result.success = FALSE )
    => result.downloaded_count = 0

\* ------------------------------------------------------------------ C30
\* the extraction calls were made for increasing loop positions: no position twice
NoItemRevisited ==
    \A i, j \in 1..Len(extracted) : i < j => extracted[i] < extracted[j]

\* C30: when every collaborator call returns or raises, every invocation
\* eventually returns a result, and it does so after at most one extraction
\* call per input url: no item is retried or revisited.
C30_ReturnsAfterOneExtractionEach == <>Done /\ [](NoItemRevisited /\ Len(extracted) <= Len(urls))

\* a call returned after the extraction of each of its two urls was called, one of them raising
C30_Witness ==
    /\ Done
    /\ outcome = "returned"
    /\ extracted = <<1, 2>>
    /\ \E k \in 1..Len(failures) : failures[k].op = "extract" /\ failures[k].how = "raise"

\* ------------------------------------------------------------------ C31
\* the lines of a text, each without its "\n"
RECURSIVE LinesOf(_)
LinesOf(t) ==
    IF t = <<>> THEN <<>>
    ELSE LET nl == CHOOSE i \in 1..Len(t) :
                       t[i] = "\n" /\ \A j \in 1..(i - 1) : t[j] # "\n"
         IN <<SubSeq(t, 1, nl - 1)>> \o LinesOf(SubSeq(t, nl + 1, Len(t)))

\* the cells of a Markdown table line: what stands between two "|", without
\* the space on each side
CellsOf(line) ==
    LET ps == {i \in 1..Len(line) : line[i] = "|"}
        Nth(k) == CHOOSE q \in ps : Cardinality({r \in ps : r < q}) = k - 1
    IN [k \in 1..(Cardinality(ps) - 1) |-> SubSeq(line, Nth(k) + 2, Nth(k + 1) - 2)]

\* a row with as many cells as the header: padded with empty cells or cut
ExpectedCells(row, n) == [k \in 1..n |-> IF k <= Len(row) THEN row[k] ELSE <<>>]

\* the number of rows the table is built from
RowsShown == IF rows <= Len(csv_file.lines) THEN rows ELSE Len(csv_file.lines)

\* C31: read_csv_first_rows(path, rows) returns the empty-file text for a
\* file with no rows, the header-only text for a file with one row, and for
\* a longer file a Markdown table built from the first `rows` rows of the
\* file (the header counted) in file order, in which every data row has as
\* many cells as the header: short rows padded with empty cells, long rows
\* cut.  Stated for rows >= 1 and a header with at least one cell.
C31_CsvPreviewTable ==
    ( /\ csv_pc = "done"
      /\ csv_file.readable
      /\ rows >= 1
      /\ csv_file.lines # <<>> => csv_file.lines[1] # <<>> )
    => LET f == csv_file.lines
           ls == LinesOf(markdown.text)
       IN /\ Len(f) = 0 => markdown.kind = "empty"
          /\ Len(f) = 1 => /\ markdown.kind = "header_only"
                           /\ markdown.text = Join(<<",", " ">>, f[1])
          /\ Len(f) >= 2 =>
               /\ markdown.kind = "table"
               /\ Len(ls) = RowsShown + 1
               /\ CellsOf(ls[1]) = f[1]
               /\ Len(CellsOf(ls[2])) = Len(f[1])
               /\ \A j \in 2..RowsShown :
                    CellsOf(ls[j + 1]) = ExpectedCells(f[j], Len(f[1]))

====
